---------------------------- MODULE Spec2Model ----------------------------
(***************************************************************************)
(* Model of the simulation engine of src/vfs.py: class VirtualFileSystem   *)
(* (the path-indexed store, the current-path cursor, the dentry and inode  *)
(* caches, the statistics and the operation log).                          *)
(*                                                                         *)
(* Python strings are TLA+ strings: concatenation is \o, len is Len and    *)
(* s[i-1] is SubSeq(s, i, i).  An FSItem object is identified by its       *)
(* inode, so a cache table, which holds references to FSItem objects,      *)
(* maps its key to the inode of the object it refers to.  A method is an   *)
(* operator from the engine (the record of the attributes of self) and the *)
(* arguments to the engine it leaves and the value it returns.  An         *)
(* exception that leaves a method is recorded in ret.exc, with the engine  *)
(* as the statements before the raise left it.  Wall-clock timestamps are  *)
(* the fixed text Now.                                                     *)
(***************************************************************************)
EXTENDS Integers, Sequences, FiniteSets, TLC

VARIABLES
    filesystem,     \* self.filesystem: path -> FSItem
    current_path,   \* self.current_path
    inode_counter,  \* self.inode_counter
    stats,          \* self.stats: Statistics
    operation_log,  \* self.operation_log: sequence of Operation
    dentry_cache,   \* self.dentry_cache: path -> inode of the cached FSItem
    inode_cache,    \* self.inode_cache: inode -> inode of the cached FSItem
    call,           \* the last call made on the engine
    ret,            \* what that call returned or raised
    threads         \* per thread inside a call: the statement it is at, its locals

vars == <<filesystem, current_path, inode_counter, stats, operation_log,
          dentry_cache, inode_cache, call, ret, threads>>

\* self: the attributes of the VirtualFileSystem object
Self ==
    [filesystem |-> filesystem, current_path |-> current_path,
     inode_counter |-> inode_counter, stats |-> stats,
     operation_log |-> operation_log, dentry_cache |-> dentry_cache,
     inode_cache |-> inode_cache]

-----------------------------------------------------------------------------
(* Bounds of the exploration *)

\* the calls explored from a start engine that are logged or take an inode
MaxOps == 2

-----------------------------------------------------------------------------
(* Enumerations and text *)

FILE == "file"
DIRECTORY == "dir"
ItemType == {FILE, DIRECTORY}

\* FileSystemType.EXT4.value, the default of VirtualFileSystem.__init__
fs_type == "ext4"

\* datetime.now() rendered as text
Now == "2025-01-01 00:00:00"

\* the characters that occur in the names used here, in code point order
Alphabet == "./0123456789_abcdefghijklmnopqrstuvwxyz"

CharAt(s, i) == SubSeq(s, i, i)

\* '/' in s
HasSlash(s) == \E i \in 1..Len(s) : CharAt(s, i) = "/"

Rank(c) == CHOOSE i \in 1..Len(Alphabet) : CharAt(Alphabet, i) = c

\* a < b for Python str
StrLess(a, b) ==
    LET n == IF Len(a) < Len(b) THEN Len(a) ELSE Len(b)
        diff == {i \in 1..n : CharAt(a, i) # CharAt(b, i)}
    IN  IF diff = {}
        THEN Len(a) < Len(b)
        ELSE LET k == CHOOSE i \in diff : \A j \in diff : i <= j
             IN  Rank(CharAt(a, k)) < Rank(CharAt(b, k))

\* s with x inserted before the first element greater than x
RECURSIVE InsertSorted(_, _)
InsertSorted(s, x) ==
    IF s = <<>> THEN <<x>>
    ELSE IF StrLess(x, Head(s)) THEN <<x>> \o s
    ELSE <<Head(s)>> \o InsertSorted(Tail(s), x)

\* sorted(s) for a list of str
RECURSIVE sorted(_)
sorted(s) ==
    IF s = <<>> THEN <<>>
    ELSE InsertSorted(sorted(SubSeq(s, 1, Len(s) - 1)), s[Len(s)])

\* x in s, for a list
InList(x, s) == \E i \in 1..Len(s) : s[i] = x

\* s after s.remove(x), for x in s: the first occurrence is dropped
RemoveFirst(s, x) ==
    LET k == CHOOSE i \in 1..Len(s) : s[i] = x /\ \A j \in 1..(i - 1) : s[j] # x
    IN  SubSeq(s, 1, k - 1) \o SubSeq(s, k + 1, Len(s))

\* f"{self.current_path}/{name}" if self.current_path != "/" else f"/{name}"
Join(cur, name) == IF cur # "/" THEN cur \o "/" \o name ELSE "/" \o name

\* a variant of ParentPath: the parent of every path is the root
ParentIsRoot(path) == "/"

\* '/'.join(path.split('/')[:-1]) or '/'
ParentPath(path) ==
    LET slashes == {i \in 1..Len(path) : CharAt(path, i) = "/"}
        last == CHOOSE i \in slashes : \A j \in slashes : j <= i
        head == IF slashes = {} THEN "" ELSE SubSeq(path, 1, last - 1)
    IN  IF head = "" THEN "/" ELSE head

-----------------------------------------------------------------------------
(* Records *)

\* FSItem(name, item_type, inode, created), the other fields at their defaults
FSItem(name, item_type, inode) ==
    [name |-> name, item_type |-> item_type, inode |-> inode, created |-> Now,
     children |-> <<>>, content |-> "", size |-> 0]

\* Operation(operation, path, filesystem, success)
Operation(operation, path, success) ==
    [operation |-> operation, path |-> path, filesystem |-> fs_type,
     success |-> success]

\* Statistics()
Statistics ==
    [total_files |-> 0, total_dirs |-> 0, operations |-> 0,
     cache_hits |-> 0, cache_misses |-> 0]

\* d after d[k] = v
Put(d, k, v) == [x \in DOMAIN d \cup {k} |-> IF x = k THEN v ELSE d[x]]

\* d after del d[k]
Del(d, k) == [x \in DOMAIN d \ {k} |-> d[x]]

\* {}
EmptyDict == [x \in {} |-> 0]

-----------------------------------------------------------------------------
(* Construction *)

\* self after _create_item_internal(parent_path, name, item_type)
CreateItemInternal(self, parent_path, name, item_type) ==
    LET s1 == [self EXCEPT !.inode_counter = @ + 1]
        item == FSItem(name, item_type, s1.inode_counter)
        full_path == IF parent_path = "/"
                     THEN (IF name # "root" THEN "/" \o name ELSE "/")
                     ELSE parent_path \o "/" \o name
        s2 == [s1 EXCEPT !.filesystem = Put(@, full_path, item)]
    IN  IF parent_path \in DOMAIN s2.filesystem /\ name # "root"
        THEN [s2 EXCEPT !.filesystem[parent_path].children = Append(@, name)]
        ELSE s2

\* item.content = text; item.size = len(text), for the item at path
SetContent(self, path, text) ==
    [self EXCEPT !.filesystem[path].content = text,
                 !.filesystem[path].size = Len(text)]

\* self.stats after _update_stats()
UpdateStats(self) ==
    LET fs == self.filesystem
    IN  [self EXCEPT
            !.stats.total_files =
                Cardinality({p \in DOMAIN fs : fs[p].item_type = FILE}),
            !.stats.total_dirs =
                Cardinality({p \in DOMAIN fs : fs[p].item_type = DIRECTORY})]

ReadmeContent ==
    "Welcome to VFS Simulator\nThis demonstrates Virtual File System operations with modern GUI.\n\nFeatures:\n- Multi-file system support\n- Dentry and Inode caching\n- System call logging\n- Performance statistics"

ConfigContent ==
    "filesystem=" \o fs_type \o "\ncache_enabled=true\nversion=2.0\narchitecture=x64"

LogContent ==
    "[" \o Now \o "] System initialized\n[" \o Now \o "] File system mounted: " \o fs_type

\* a variant of InitializeFilesystem: the statistics are not updated at the end
InitializeFilesystemUncounted(self) ==
    LET s1 == CreateItemInternal(self, "/", "root", DIRECTORY)
        s2 == CreateItemInternal(s1, "/", "home", DIRECTORY)
        s3 == CreateItemInternal(s2, "/home", "user", DIRECTORY)
        s4 == CreateItemInternal(s3, "/home/user", "documents", DIRECTORY)
        s5 == CreateItemInternal(s4, "/home/user", "downloads", DIRECTORY)
        s6 == SetContent(CreateItemInternal(s5, "/home/user", "readme.txt", FILE),
                         "/home/user/readme.txt", ReadmeContent)
        s7 == CreateItemInternal(s6, "/", "etc", DIRECTORY)
        s8 == SetContent(CreateItemInternal(s7, "/etc", "config.txt", FILE),
                         "/etc/config.txt", ConfigContent)
        s9 == CreateItemInternal(s8, "/", "var", DIRECTORY)
        s10 == CreateItemInternal(s9, "/var", "log", DIRECTORY)
    IN  SetContent(CreateItemInternal(s10, "/var/log", "system.log", FILE),
                   "/var/log/system.log", LogContent)

\* self after _initialize_filesystem()
InitializeFilesystem(self) ==
    LET s1 == CreateItemInternal(self, "/", "root", DIRECTORY)
        s2 == CreateItemInternal(s1, "/", "home", DIRECTORY)
        s3 == CreateItemInternal(s2, "/home", "user", DIRECTORY)
        s4 == CreateItemInternal(s3, "/home/user", "documents", DIRECTORY)
        s5 == CreateItemInternal(s4, "/home/user", "downloads", DIRECTORY)
        s6 == SetContent(CreateItemInternal(s5, "/home/user", "readme.txt", FILE),
                         "/home/user/readme.txt", ReadmeContent)
        s7 == CreateItemInternal(s6, "/", "etc", DIRECTORY)
        s8 == SetContent(CreateItemInternal(s7, "/etc", "config.txt", FILE),
                         "/etc/config.txt", ConfigContent)
        s9 == CreateItemInternal(s8, "/", "var", DIRECTORY)
        s10 == CreateItemInternal(s9, "/var", "log", DIRECTORY)
        s11 == SetContent(CreateItemInternal(s10, "/var/log", "system.log", FILE),
                          "/var/log/system.log", LogContent)
    IN  UpdateStats(s11)

\* VirtualFileSystem(FileSystemType.EXT4)
Constructed ==
    InitializeFilesystem(
        [filesystem |-> EmptyDict, current_path |-> "/", inode_counter |-> 0,
         stats |-> Statistics, operation_log |-> <<>>,
         dentry_cache |-> EmptyDict, inode_cache |-> EmptyDict])

-----------------------------------------------------------------------------
(* Operations *)

\* the value a method returns: the (bool, str) tuple of create, delete,
\* change_directory and write_file; the item of read_file (ok is "not None")
\* and the list of get_current_items, as the inodes of the items returned;
\* exc names the exception when the method raised instead
Return(ok, msg) == [ok |-> ok, msg |-> msg, exc |-> "", items |-> <<>>]
ReturnItems(ok, items) == [ok |-> ok, msg |-> "", exc |-> "", items |-> items]
Raise(exc) == [ok |-> FALSE, msg |-> "", exc |-> exc, items |-> <<>>]

\* a method's outcome: the engine it leaves and what it returned or raised
Result(self, r) == [self |-> self, ret |-> r]

\* a variant of LogOperation: the record is appended and not counted
LogOperationUncounted(self, operation, path, success) ==
    [self EXCEPT
        !.operation_log = Append(@, Operation(operation, path, success))]

\* a variant of LogOperation: every record is one of a success
LogOperationAsSuccess(self, operation, path, success) ==
    [self EXCEPT
        !.operation_log = Append(@, Operation(operation, path, TRUE)),
        !.stats.operations = @ + 1]

\* self after _log_operation(operation, path, success)
LogOperation(self, operation, path, success) ==
    [self EXCEPT
        !.operation_log = Append(@, Operation(operation, path, success)),
        !.stats.operations = @ + 1]

\* a variant of AllocInode: the inode is taken from the size of the store
AllocInodeBySize(self) ==
    [self EXCEPT !.inode_counter = Cardinality(DOMAIN self.filesystem) + 1]

\* self.inode_counter += 1
AllocInode(self) == [self EXCEPT !.inode_counter = @ + 1]

\* a variant of create: the test whether new_path is in the store is left out
CreateUnchecked(self, name, item_type) ==
    LET new_path == Join(self.current_path, name)
        s1 == AllocInode(self)
        item == FSItem(name, item_type, s1.inode_counter)
        s2 == [s1 EXCEPT !.filesystem = Put(@, new_path, item)]
        s3 == [s2 EXCEPT
                  !.filesystem[self.current_path].children = Append(@, name)]
    IN  IF name = "" \/ HasSlash(name) THEN
            Result(self, Return(FALSE, "Invalid name!"))
        ELSE IF self.current_path \notin DOMAIN s2.filesystem THEN
            Result(s2, Raise("KeyError"))
        ELSE
            Result(LogOperation(UpdateStats(s3), "CREATE", new_path, TRUE),
                   Return(TRUE, "Created " \o item_type \o ": " \o name))

create(self, name, item_type) ==
    LET new_path == Join(self.current_path, name)
        s1 == AllocInode(self)
        item == FSItem(name, item_type, s1.inode_counter)
        s2 == [s1 EXCEPT !.filesystem = Put(@, new_path, item)]
        s3 == [s2 EXCEPT
                  !.filesystem[self.current_path].children = Append(@, name)]
    IN  IF name = "" \/ HasSlash(name) THEN
            Result(self, Return(FALSE, "Invalid name!"))
        ELSE IF new_path \in DOMAIN self.filesystem THEN
            Result(LogOperation(self, "CREATE", new_path, FALSE),
                   Return(FALSE, "Item already exists!"))
        ELSE IF self.current_path \notin DOMAIN s2.filesystem THEN
            \* self.filesystem[self.current_path] raises
            Result(s2, Raise("KeyError"))
        ELSE
            Result(LogOperation(UpdateStats(s3), "CREATE", new_path, TRUE),
                   Return(TRUE, "Created " \o item_type \o ": " \o name))

\* a variant of HasChildren: a directory with one child counts as empty
HasSeveralChildren(item) == item.item_type = DIRECTORY /\ Len(item.children) > 1

\* item.item_type == ItemType.DIRECTORY and item.children
HasChildren(item) == item.item_type = DIRECTORY /\ item.children # <<>>

\* a variant of delete: the inode cache is not purged
DeleteKeepCached(self, name) ==
    LET item_path == Join(self.current_path, name)
        item == self.filesystem[item_path]
        s1 == [self EXCEPT !.filesystem = Del(@, item_path)]
        s2 == [s1 EXCEPT
                  !.filesystem[self.current_path].children = RemoveFirst(@, name)]
        s3 == IF item_path \in DOMAIN s2.dentry_cache
              THEN [s2 EXCEPT !.dentry_cache = Del(@, item_path)]
              ELSE s2
    IN  IF item_path \notin DOMAIN self.filesystem THEN
            Result(LogOperation(self, "DELETE", item_path, FALSE),
                   Return(FALSE, "Item not found!"))
        ELSE IF HasChildren(item) THEN
            Result(LogOperation(self, "DELETE", item_path, FALSE),
                   Return(FALSE, "Cannot delete non-empty directory!"))
        ELSE IF self.current_path \notin DOMAIN s1.filesystem THEN
            Result(s1, Raise("KeyError"))
        ELSE IF ~InList(name, s1.filesystem[self.current_path].children) THEN
            Result(s1, Raise("ValueError"))
        ELSE
            Result(LogOperation(UpdateStats(s3), "DELETE", item_path, TRUE),
                   Return(TRUE, "Deleted: " \o name))

delete(self, name) ==
    LET item_path == Join(self.current_path, name)
        item == self.filesystem[item_path]
        s1 == [self EXCEPT !.filesystem = Del(@, item_path)]
        s2 == [s1 EXCEPT
                  !.filesystem[self.current_path].children = RemoveFirst(@, name)]
        s3 == IF item_path \in DOMAIN s2.dentry_cache
              THEN [s2 EXCEPT !.dentry_cache = Del(@, item_path)]
              ELSE s2
        s4 == IF item.inode \in DOMAIN s3.inode_cache
              THEN [s3 EXCEPT !.inode_cache = Del(@, item.inode)]
              ELSE s3
    IN  IF item_path \notin DOMAIN self.filesystem THEN
            Result(LogOperation(self, "DELETE", item_path, FALSE),
                   Return(FALSE, "Item not found!"))
        ELSE IF HasChildren(item) THEN
            Result(LogOperation(self, "DELETE", item_path, FALSE),
                   Return(FALSE, "Cannot delete non-empty directory!"))
        ELSE IF self.current_path \notin DOMAIN s1.filesystem THEN
            \* self.filesystem[self.current_path] raises
            Result(s1, Raise("KeyError"))
        ELSE IF ~InList(name, s1.filesystem[self.current_path].children) THEN
            \* children.remove(name) raises
            Result(s1, Raise("ValueError"))
        ELSE
            Result(LogOperation(UpdateStats(s4), "DELETE", item_path, TRUE),
                   Return(TRUE, "Deleted: " \o name))

\* a variant of LookupDentry: a miss is counted and the item is not cached
LookupDentryNoInsert(self, new_path) ==
    IF new_path \in DOMAIN self.dentry_cache
    THEN [self EXCEPT !.stats.cache_hits = @ + 1]
    ELSE [self EXCEPT !.stats.cache_misses = @ + 1]

\* the dentry cache lookup of change_directory, for the item at new_path
LookupDentry(self, new_path) ==
    IF new_path \in DOMAIN self.dentry_cache
    THEN [self EXCEPT !.stats.cache_hits = @ + 1]
    ELSE [self EXCEPT
             !.dentry_cache = Put(@, new_path, self.filesystem[new_path].inode),
             !.stats.cache_misses = @ + 1]

\* a variant of change_directory: the dentry cache lookup is done before the
\* test that the item is a directory
ChangeDirectoryEager(self, name) ==
    LET new_path == Join(self.current_path, name)
        up == [self EXCEPT !.current_path = ParentPath(@)]
        s1 == LookupDentry(self, new_path)
        s2 == [s1 EXCEPT !.current_path = new_path]
    IN  IF name = ".." THEN
            IF self.current_path # "/" THEN
                Result(LogOperation(up, "CHDIR", up.current_path, TRUE),
                       Return(TRUE, "Changed to " \o up.current_path))
            ELSE
                Result(self, Return(FALSE, "Already at root"))
        ELSE IF new_path \notin DOMAIN self.filesystem THEN
            Result(self, Return(FALSE, "Directory not found!"))
        ELSE IF self.filesystem[new_path].item_type # DIRECTORY THEN
            Result(s1, Return(FALSE, "Not a directory!"))
        ELSE
            Result(LogOperation(s2, "CHDIR", new_path, TRUE),
                   Return(TRUE, "Changed to " \o new_path))

\* a variant of change_directory: ".." looks the parent up in the dentry cache
ChangeDirectoryUpLooksUp(self, name) ==
    LET new_path == Join(self.current_path, name)
        up == [LookupDentry(self, ParentPath(self.current_path))
                  EXCEPT !.current_path = ParentPath(@)]
        s1 == LookupDentry(self, new_path)
        s2 == [s1 EXCEPT !.current_path = new_path]
    IN  IF name = ".." THEN
            IF self.current_path # "/" THEN
                Result(LogOperation(up, "CHDIR", up.current_path, TRUE),
                       Return(TRUE, "Changed to " \o up.current_path))
            ELSE
                Result(self, Return(FALSE, "Already at root"))
        ELSE IF new_path \notin DOMAIN self.filesystem THEN
            Result(self, Return(FALSE, "Directory not found!"))
        ELSE IF self.filesystem[new_path].item_type # DIRECTORY THEN
            Result(self, Return(FALSE, "Not a directory!"))
        ELSE
            Result(LogOperation(s2, "CHDIR", new_path, TRUE),
                   Return(TRUE, "Changed to " \o new_path))

change_directory(self, name) ==
    LET new_path == Join(self.current_path, name)
        up == [self EXCEPT !.current_path = ParentPath(@)]
        s1 == LookupDentry(self, new_path)
        s2 == [s1 EXCEPT !.current_path = new_path]
    IN  IF name = ".." THEN
            IF self.current_path # "/" THEN
                Result(LogOperation(up, "CHDIR", up.current_path, TRUE),
                       Return(TRUE, "Changed to " \o up.current_path))
            ELSE
                Result(self, Return(FALSE, "Already at root"))
        ELSE IF new_path \notin DOMAIN self.filesystem THEN
            Result(self, Return(FALSE, "Directory not found!"))
        ELSE IF self.filesystem[new_path].item_type # DIRECTORY THEN
            Result(self, Return(FALSE, "Not a directory!"))
        ELSE
            Result(LogOperation(s2, "CHDIR", new_path, TRUE),
                   Return(TRUE, "Changed to " \o new_path))

\* a variant of LookupInode: a miss is counted and the item is not cached
LookupInodeNoInsert(self, item) ==
    IF item.inode \in DOMAIN self.inode_cache
    THEN [self EXCEPT !.stats.cache_hits = @ + 1]
    ELSE [self EXCEPT !.stats.cache_misses = @ + 1]

\* the inode cache lookup of read_file, for item
LookupInode(self, item) ==
    IF item.inode \in DOMAIN self.inode_cache
    THEN [self EXCEPT !.stats.cache_hits = @ + 1]
    ELSE [self EXCEPT
             !.inode_cache = Put(@, item.inode, item.inode),
             !.stats.cache_misses = @ + 1]

\* a variant of read_file: the inode cache lookup is done before the test
\* that the item is a file
ReadFileEager(self, name) ==
    LET file_path == Join(self.current_path, name)
        item == self.filesystem[file_path]
    IN  IF file_path \notin DOMAIN self.filesystem THEN
            Result(self, ReturnItems(FALSE, <<>>))
        ELSE IF item.item_type # FILE THEN
            Result(LookupInode(self, item), ReturnItems(FALSE, <<>>))
        ELSE
            Result(LogOperation(LookupInode(self, item), "READ", file_path, TRUE),
                   ReturnItems(TRUE, <<item.inode>>))

\* a variant of read_file: the test that the item is a file is left out
ReadFileAnyItem(self, name) ==
    LET file_path == Join(self.current_path, name)
        item == self.filesystem[file_path]
    IN  IF file_path \notin DOMAIN self.filesystem THEN
            Result(self, ReturnItems(FALSE, <<>>))
        ELSE
            Result(LogOperation(LookupInode(self, item), "READ", file_path, TRUE),
                   ReturnItems(TRUE, <<item.inode>>))

read_file(self, name) ==
    LET file_path == Join(self.current_path, name)
        item == self.filesystem[file_path]
    IN  IF file_path \notin DOMAIN self.filesystem THEN
            Result(self, ReturnItems(FALSE, <<>>))
        ELSE IF item.item_type # FILE THEN
            Result(self, ReturnItems(FALSE, <<>>))
        ELSE
            Result(LogOperation(LookupInode(self, item), "READ", file_path, TRUE),
                   ReturnItems(TRUE, <<item.inode>>))

\* a variant of write_file: the test that the item is a file is left out
WriteFileAnyItem(self, name, content) ==
    LET file_path == Join(self.current_path, name)
        s1 == [self EXCEPT !.filesystem[file_path].content = content,
                           !.filesystem[file_path].size = Len(content)]
    IN  IF file_path \notin DOMAIN self.filesystem THEN
            Result(LogOperation(self, "WRITE", file_path, FALSE),
                   Return(FALSE, "File not found!"))
        ELSE
            Result(LogOperation(s1, "WRITE", file_path, TRUE),
                   Return(TRUE, "File saved: " \o name))

\* a variant of write_file: the content is stored and the size is left as
\* it was
WriteFileKeepSize(self, name, content) ==
    LET file_path == Join(self.current_path, name)
        item == self.filesystem[file_path]
        s1 == [self EXCEPT !.filesystem[file_path].content = content]
    IN  IF file_path \notin DOMAIN self.filesystem THEN
            Result(LogOperation(self, "WRITE", file_path, FALSE),
                   Return(FALSE, "File not found!"))
        ELSE IF item.item_type # FILE THEN
            Result(LogOperation(self, "WRITE", file_path, FALSE),
                   Return(FALSE, "Not a file!"))
        ELSE
            Result(LogOperation(s1, "WRITE", file_path, TRUE),
                   Return(TRUE, "File saved: " \o name))

write_file(self, name, content) ==
    LET file_path == Join(self.current_path, name)
        item == self.filesystem[file_path]
        s1 == [self EXCEPT !.filesystem[file_path].content = content,
                           !.filesystem[file_path].size = Len(content)]
    IN  IF file_path \notin DOMAIN self.filesystem THEN
            Result(LogOperation(self, "WRITE", file_path, FALSE),
                   Return(FALSE, "File not found!"))
        ELSE IF item.item_type # FILE THEN
            Result(LogOperation(self, "WRITE", file_path, FALSE),
                   Return(FALSE, "Not a file!"))
        ELSE
            Result(LogOperation(s1, "WRITE", file_path, TRUE),
                   Return(TRUE, "File saved: " \o name))

\* the items get_current_items collects: one per name of names whose path
\* under cur is in the store, in the order of names
RECURSIVE ChildItems(_, _, _)
ChildItems(fs, cur, names) ==
    IF names = <<>> THEN <<>>
    ELSE LET child_path == Join(cur, Head(names))
             rest == ChildItems(fs, cur, Tail(names))
         IN  IF child_path \in DOMAIN fs
             THEN <<fs[child_path].inode>> \o rest
             ELSE rest

get_current_items(self) ==
    LET cur == self.current_path
        fs == self.filesystem
    IN  IF cur \notin DOMAIN fs \/ fs[cur].item_type # DIRECTORY THEN
            Result(self, ReturnItems(TRUE, <<>>))
        ELSE
            Result(LogOperation(self, "READDIR", cur, TRUE),
                   ReturnItems(TRUE, ChildItems(fs, cur, sorted(fs[cur].children))))

\* a variant of clear_cache: the hit and miss counts are reset as well
ClearCacheAndCounts(self) ==
    Result(LogOperation([self EXCEPT !.dentry_cache = EmptyDict,
                                     !.inode_cache = EmptyDict,
                                     !.stats.cache_hits = 0,
                                     !.stats.cache_misses = 0],
                        "CACHE_CLEAR", "system", TRUE),
           Return(TRUE, ""))

\* a variant of clear_cache: the inode cache is left as it is
ClearDentryCache(self) ==
    Result(LogOperation([self EXCEPT !.dentry_cache = EmptyDict],
                        "CACHE_CLEAR", "system", TRUE),
           Return(TRUE, ""))

clear_cache(self) ==
    Result(LogOperation([self EXCEPT !.dentry_cache = EmptyDict,
                                     !.inode_cache = EmptyDict],
                        "CACHE_CLEAR", "system", TRUE),
           Return(TRUE, ""))

-----------------------------------------------------------------------------
(* The caller *)

Call(op, name, arg) == [op |-> op, name |-> name, arg |-> arg]

\* the threads that call the engine
Threads == {1, 2}

\* a thread outside any call: pc is the line of the statement the thread is
\* at ("idle" outside a call); name, item_type, path and inode are the locals
\* name, item_type, new_path or item_path, and item.inode; ret is what its
\* last call returned or raised; calls counts the calls it made
IdleThread ==
    [pc |-> "idle", name |-> "", item_type |-> "", path |-> "", inode |-> 0,
     ret |-> "", calls |-> 0]

\* the engine is self, the last call c returned or raised r
Holds(self, c, r) ==
    /\ filesystem = self.filesystem
    /\ current_path = self.current_path
    /\ inode_counter = self.inode_counter
    /\ stats = self.stats
    /\ operation_log = self.operation_log
    /\ dentry_cache = self.dentry_cache
    /\ inode_cache = self.inode_cache
    /\ call = c
    /\ ret = r
    /\ threads = [t \in Threads |-> IdleThread]

\* the call c is made and ends as res
Does(c, res) ==
    /\ filesystem' = res.self.filesystem
    /\ current_path' = res.self.current_path
    /\ inode_counter' = res.self.inode_counter
    /\ stats' = res.self.stats
    /\ operation_log' = res.self.operation_log
    /\ dentry_cache' = res.self.dentry_cache
    /\ inode_cache' = res.self.inode_cache
    /\ call' = c
    /\ ret' = res.ret
    /\ threads' = threads

\* the outcome of the call c on the engine self
Outcome(self, c) ==
    CASE c.op = "create" -> create(self, c.name, c.arg)
      [] c.op = "delete" -> delete(self, c.name)
      [] c.op = "change_directory" -> change_directory(self, c.name)
      [] c.op = "read_file" -> read_file(self, c.name)
      [] c.op = "write_file" -> write_file(self, c.name, c.arg)
      [] c.op = "get_current_items" -> get_current_items(self)
      [] c.op = "clear_cache" -> clear_cache(self)

\* the engine after the calls of the sequence cs, made in order on self
RECURSIVE After(_, _)
After(self, cs) ==
    IF cs = <<>> THEN self
    ELSE After(Outcome(self, Head(cs)).self, Tail(cs))

Cd(name) == Call("change_directory", name, "")
Rm(name) == Call("delete", name, "")

\* the calls that delete the seeded tree below the root, leaves first
EmptyTheRoot ==
    << Cd("var"), Cd("log"), Rm("system.log"), Cd(".."), Rm("log"), Cd(".."),
       Rm("var"),
       Cd("etc"), Rm("config.txt"), Cd(".."), Rm("etc"),
       Cd("home"), Cd("user"), Rm("documents"), Rm("downloads"),
       Rm("readme.txt"), Cd(".."), Rm("user"), Cd(".."), Rm("home") >>

\* the calls that delete /etc/config.txt from the root and enter /etc
DeleteBelow == << Rm("etc/config.txt"), Cd("etc") >>

\* the calls of a session in /home/user: a file is created, written, read
\* and deleted
NotesScenario ==
    << Cd("home"), Cd("user"), Call("create", "notes.txt", FILE),
       Call("write_file", "notes.txt", "hello"),
       Call("read_file", "notes.txt", ""), Rm("notes.txt") >>

\* the engines a caller sees: self, and the engine after each call of cs
RECURSIVE Engines(_, _)
Engines(self, cs) ==
    IF cs = <<>> THEN <<self>>
    ELSE <<self>> \o Engines(Outcome(self, Head(cs)).self, Tail(cs))

\* Trail[k + 1] is the constructed engine after the first k calls of EmptyTheRoot
Trail == Engines(Constructed, EmptyTheRoot)

\* NotesTrail[k + 1] is the constructed engine after the first k calls of
\* NotesScenario
NotesTrail == Engines(Constructed, NotesScenario)

\* the constructed engine after EmptyTheRoot, and after DeleteBelow
Emptied == Trail[Len(Trail)]
Below == After(Constructed, DeleteBelow)

\* the name arguments tried: empty, the parent marker, a seeded directory, a
\* seeded file of it, that file by a name with a separator, and a fresh name
Names == {"", "..", "etc", "config.txt", "etc/config.txt", "new"}

\* the texts written
Contents == {"", "hello"}

\* the log a is the beginning of the log b
IsPrefix(a, b) == Len(a) <= Len(b) /\ \A i \in 1..Len(a) : a[i] = b[i]

\* the operations logged before the exploration of any call started: the
\* calls are explored from the constructed engine, from the engine after
\* EmptyTheRoot and from the one after DeleteBelow, and the log of each is
\* the beginning of every log that grows from it
Logged(log) ==
    IF IsPrefix(Emptied.operation_log, log) THEN Len(Emptied.operation_log)
    ELSE IF IsPrefix(Below.operation_log, log) THEN Len(Below.operation_log)
    ELSE 0

\* the calls of create that the log records as done
Created(log) ==
    Cardinality({i \in 1..Len(log) : log[i].operation = "CREATE" /\ log[i].success})

\* the calls made since the start that left a trace: the ones logged, and the
\* ones that took an inode and raised before they were logged
Spent ==
    (Len(operation_log) - Logged(operation_log))
    + ((inode_counter - Constructed.inode_counter) - Created(operation_log))

\* the exploration goes on
Within == Spent < MaxOps

Create ==
    /\ Within
    /\ \E name \in Names, item_type \in ItemType :
          Does(Call("create", name, item_type), create(Self, name, item_type))

Delete ==
    /\ Within
    /\ \E name \in Names :
          Does(Call("delete", name, ""), delete(Self, name))

ChangeDirectory ==
    /\ Within
    /\ \E name \in Names :
          Does(Call("change_directory", name, ""), change_directory(Self, name))

ReadFile ==
    /\ Within
    /\ \E name \in Names :
          Does(Call("read_file", name, ""), read_file(Self, name))

WriteFile ==
    /\ Within
    /\ \E name \in Names, content \in Contents :
          Does(Call("write_file", name, content), write_file(Self, name, content))

ListCurrentDirectory ==
    Within /\ Does(Call("get_current_items", "", ""), get_current_items(Self))

ClearCache ==
    Within /\ Does(Call("clear_cache", "", ""), clear_cache(Self))

\* the caller goes on with EmptyTheRoot, each call of which logs one operation
Replay ==
    LET k == Len(operation_log)
    IN  /\ k < Len(EmptyTheRoot)
        /\ Self = Trail[k + 1]
        /\ Does(EmptyTheRoot[k + 1], Outcome(Self, EmptyTheRoot[k + 1]))

\* the caller goes on with NotesScenario, each call of which logs one operation
Scenario ==
    LET k == Len(operation_log)
    IN  /\ k < Len(NotesScenario)
        /\ Self = NotesTrail[k + 1]
        /\ Does(NotesScenario[k + 1], Outcome(Self, NotesScenario[k + 1]))

Next ==
    \/ Create
    \/ Delete
    \/ ChangeDirectory
    \/ ReadFile
    \/ WriteFile
    \/ ListCurrentDirectory
    \/ ClearCache
    \/ Replay
    \/ Scenario

\* the state after VirtualFileSystem(FileSystemType.EXT4)
Init == Holds(Constructed, Call("__init__", "", ""), Return(TRUE, ""))

\* every sequence of calls on the constructed engine, within the bounds
Spec == Init /\ [][Next]_vars

-----------------------------------------------------------------------------
(* Two threads on one engine *)

(***************************************************************************)
(* The methods take no lock, and the interpreter may switch threads        *)
(* between any two statements of a method.  Here two threads call create   *)
(* and delete on the same engine, one statement (or one group of           *)
(* statements, named by the line of its first) at a time.                  *)
(***************************************************************************)

\* the calls each thread makes
MaxThreadCalls == 2

\* the names the threads create and delete: both threads use the same name
ThreadNames == {"new"}

\* the engine becomes self
Leaves(self) ==
    /\ filesystem' = self.filesystem
    /\ current_path' = self.current_path
    /\ inode_counter' = self.inode_counter
    /\ stats' = self.stats
    /\ operation_log' = self.operation_log
    /\ dentry_cache' = self.dentry_cache
    /\ inode_cache' = self.inode_cache
    /\ UNCHANGED <<call, ret>>

\* the thread t goes to the statement pc
Goes(t, pc) == threads' = [threads EXCEPT ![t].pc = pc]

\* the thread t leaves its call, which returned or raised r
Returns(t, r) == threads' = [threads EXCEPT ![t].pc = "idle", ![t].ret = r]

\* create, lines 124-131: the tests of the name and of the path
ThreadCreate(t) ==
    /\ threads[t].pc = "idle"
    /\ threads[t].calls < MaxThreadCalls
    /\ \E name \in ThreadNames, item_type \in ItemType :
          LET new_path == Join(current_path, name)
              entered == [threads[t] EXCEPT !.name = name, !.item_type = item_type,
                                            !.path = new_path, !.calls = @ + 1]
          IN  IF name = "" \/ HasSlash(name) THEN
                  /\ Leaves(Self)
                  /\ threads' = [threads EXCEPT ![t] = [entered EXCEPT !.ret = "False"]]
              ELSE IF new_path \in DOMAIN filesystem THEN
                  /\ Leaves(LogOperation(Self, "CREATE", new_path, FALSE))
                  /\ threads' = [threads EXCEPT ![t] = [entered EXCEPT !.ret = "False"]]
              ELSE
                  /\ Leaves(Self)
                  /\ threads' = [threads EXCEPT ![t] = [entered EXCEPT !.pc = "create_133"]]

\* create, lines 133-139: the inode is taken and the item is built
CreateAlloc(t) ==
    /\ threads[t].pc = "create_133"
    /\ Leaves(AllocInode(Self))
    /\ threads' = [threads EXCEPT ![t].pc = "create_141",
                                  ![t].inode = AllocInode(Self).inode_counter]

\* create, line 141: self.filesystem[new_path] = item
CreateStore(t) ==
    /\ threads[t].pc = "create_141"
    /\ Leaves([Self EXCEPT !.filesystem =
                  Put(@, threads[t].path,
                      FSItem(threads[t].name, threads[t].item_type, threads[t].inode))])
    /\ Goes(t, "create_142")

\* create, line 142: self.filesystem[self.current_path].children.append(name)
CreateAppend(t) ==
    /\ threads[t].pc = "create_142"
    /\ IF current_path \notin DOMAIN filesystem THEN
           Leaves(Self) /\ Returns(t, "KeyError")
       ELSE
           /\ Leaves([Self EXCEPT !.filesystem[current_path].children =
                         Append(@, threads[t].name)])
           /\ Goes(t, "create_144")

\* create, lines 144-146: the statistics, the log and the return
CreateFinish(t) ==
    /\ threads[t].pc = "create_144"
    /\ Leaves(LogOperation(UpdateStats(Self), "CREATE", threads[t].path, TRUE))
    /\ Returns(t, "True")

\* delete, lines 149-159: the tests of the path and of the children
ThreadDelete(t) ==
    /\ threads[t].pc = "idle"
    /\ threads[t].calls < MaxThreadCalls
    /\ \E name \in ThreadNames :
          LET item_path == Join(current_path, name)
              entered == [threads[t] EXCEPT !.name = name, !.item_type = "",
                                            !.path = item_path, !.calls = @ + 1]
          IN  IF item_path \notin DOMAIN filesystem THEN
                  /\ Leaves(LogOperation(Self, "DELETE", item_path, FALSE))
                  /\ threads' = [threads EXCEPT ![t] = [entered EXCEPT !.ret = "False"]]
              ELSE IF HasChildren(filesystem[item_path]) THEN
                  /\ Leaves(LogOperation(Self, "DELETE", item_path, FALSE))
                  /\ threads' = [threads EXCEPT ![t] = [entered EXCEPT !.ret = "False"]]
              ELSE
                  /\ Leaves(Self)
                  /\ threads' = [threads EXCEPT ![t] =
                                    [entered EXCEPT !.pc = "delete_161",
                                                    !.inode = filesystem[item_path].inode]]

\* delete, line 161: del self.filesystem[item_path]
DeleteRemove(t) ==
    /\ threads[t].pc = "delete_161"
    /\ IF threads[t].path \notin DOMAIN filesystem THEN
           Leaves(Self) /\ Returns(t, "KeyError")
       ELSE
           /\ Leaves([Self EXCEPT !.filesystem = Del(@, threads[t].path)])
           /\ Goes(t, "delete_162")

\* delete, line 162: self.filesystem[self.current_path].children.remove(name)
DeleteUnlist(t) ==
    /\ threads[t].pc = "delete_162"
    /\ IF current_path \notin DOMAIN filesystem THEN
           Leaves(Self) /\ Returns(t, "KeyError")
       ELSE IF ~InList(threads[t].name, filesystem[current_path].children) THEN
           Leaves(Self) /\ Returns(t, "ValueError")
       ELSE
           /\ Leaves([Self EXCEPT !.filesystem[current_path].children =
                         RemoveFirst(@, threads[t].name)])
           /\ Goes(t, "delete_164")

\* delete, lines 164-167: the item is taken out of both caches
DeletePurge(t) ==
    /\ threads[t].pc = "delete_164"
    /\ LET s1 == IF threads[t].path \in DOMAIN dentry_cache
                 THEN [Self EXCEPT !.dentry_cache = Del(@, threads[t].path)]
                 ELSE Self
           s2 == IF threads[t].inode \in DOMAIN s1.inode_cache
                 THEN [s1 EXCEPT !.inode_cache = Del(@, threads[t].inode)]
                 ELSE s1
       IN  Leaves(s2)
    /\ Goes(t, "delete_169")

\* delete, lines 169-171: the statistics, the log and the return
DeleteFinish(t) ==
    /\ threads[t].pc = "delete_169"
    /\ Leaves(LogOperation(UpdateStats(Self), "DELETE", threads[t].path, TRUE))
    /\ Returns(t, "True")

NextThreads ==
    \E t \in Threads :
       \/ ThreadCreate(t)
       \/ CreateAlloc(t)
       \/ CreateStore(t)
       \/ CreateAppend(t)
       \/ CreateFinish(t)
       \/ ThreadDelete(t)
       \/ DeleteRemove(t)
       \/ DeleteUnlist(t)
       \/ DeletePurge(t)
       \/ DeleteFinish(t)

\* every interleaving of the calls of the two threads on the constructed engine
SpecThreads == Init /\ [][NextThreads]_vars

-----------------------------------------------------------------------------
(* Vocabulary of the properties *)

\* the last segment of path
Leaf(path) ==
    LET slashes == {i \in 1..Len(path) : CharAt(path, i) = "/"}
        last == CHOOSE i \in slashes : \A j \in slashes : j <= i
    IN  IF slashes = {} THEN path ELSE SubSeq(path, last + 1, Len(path))

\* how often x occurs in the list s
Count(x, s) == Cardinality({i \in 1..Len(s) : s[i] = x})

\* a name create accepts: non-empty, without "/"
ValidName(name) == name # "" /\ ~HasSlash(name)

\* the failures, as the methods report them
InvalidName == Return(FALSE, "Invalid name!")
AlreadyExists == Return(FALSE, "Item already exists!")
NotFound == Return(FALSE, "Item not found!")
NotEmpty == Return(FALSE, "Cannot delete non-empty directory!")
AtRoot == Return(FALSE, "Already at root")
NoSuchDirectory == Return(FALSE, "Directory not found!")
NotADirectory == Return(FALSE, "Not a directory!")
FileNotFound == Return(FALSE, "File not found!")
NotAFile == Return(FALSE, "Not a file!")

\* the call left the store, the children lists, both caches and the current
\* path as they are now
Untouched(self) ==
    /\ self.filesystem = filesystem
    /\ self.dentry_cache = dentry_cache
    /\ self.inode_cache = inode_cache
    /\ self.current_path = current_path

\* the item a read_file that ended as res returned: the item of the store
\* with the inode returned
Returned(res) ==
    LET fs == res.self.filesystem
    IN  fs[CHOOSE p \in DOMAIN fs : fs[p].inode = res.ret.items[1]]

\* the last record of the log, when there is one
LastLogged == operation_log[Len(operation_log)]

-----------------------------------------------------------------------------
(* Store and children lists *)

\* C1: for every non-root path P of the store, parent(P) is in the store, is
\* a directory and lists leaf(P) exactly once; every name in a directory's
\* children resolves to a store entry below it; files have no children.
LockStep ==
    /\ \A P \in DOMAIN filesystem \ {"/"} :
          /\ ParentPath(P) \in DOMAIN filesystem
          /\ filesystem[ParentPath(P)].item_type = DIRECTORY
          /\ Count(Leaf(P), filesystem[ParentPath(P)].children) = 1
    /\ \A d \in DOMAIN filesystem :
          \A i \in 1..Len(filesystem[d].children) :
             Join(d, filesystem[d].children[i]) \in DOMAIN filesystem
    /\ \A f \in DOMAIN filesystem :
          filesystem[f].item_type = FILE => filesystem[f].children = <<>>

\* C2: the root directory exists at "/" in every reachable state, and it is
\* the node the construction put there.
RootExists ==
    /\ "/" \in DOMAIN filesystem
    /\ filesystem["/"].inode = Constructed.filesystem["/"].inode
    /\ filesystem["/"].item_type = DIRECTORY

\* C3: current_path is a key of the store and maps to a directory.
CurrentPathIsDirectory ==
    /\ current_path \in DOMAIN filesystem
    /\ filesystem[current_path].item_type = DIRECTORY

-----------------------------------------------------------------------------
(* Inodes *)

\* no two nodes of the store share an inode, and none is above the counter
InodesDistinct ==
    /\ \A p, q \in DOMAIN filesystem :
          p # q => filesystem[p].inode # filesystem[q].inode
    /\ \A p \in DOMAIN filesystem : filesystem[p].inode <= inode_counter

\* a node a step puts into the store has an inode above the counter as it
\* was, which the counter then reaches; the counter never goes down
InodesFresh ==
    /\ inode_counter' >= inode_counter
    /\ \A p \in DOMAIN filesystem' :
          (p \notin DOMAIN filesystem \/ filesystem'[p].inode # filesystem[p].inode)
             => /\ filesystem'[p].inode > inode_counter
                /\ filesystem'[p].inode <= inode_counter'

\* C4: node ids are unique and never reused: no two nodes share an id, every
\* id assigned is greater than every id assigned before it, so the id of a
\* deleted node is never assigned again.
InodesUnique == [](InodesDistinct) /\ [][InodesFresh]_vars

\* a create succeeded at a path whose earlier node a delete had removed
InodesUniqueWitness ==
    /\ call.op = "create" /\ ret.ok
    /\ \E i \in 1..Len(operation_log) :
          /\ operation_log[i].operation = "DELETE"
          /\ operation_log[i].success
          /\ operation_log[i].path = LastLogged.path
          /\ i < Len(operation_log)

-----------------------------------------------------------------------------
(* Create and Delete *)

\* C5: in every state, for every valid name whose path is absent and either
\* kind, create succeeds; the path then holds a node of that name and kind
\* with empty content, size 0, no children and a fresh inode; the name is
\* appended to the children of current_path and nothing else in the store
\* changes.
CreateSucceeds ==
    \A name \in Names, item_type \in ItemType :
       LET new_path == Join(current_path, name)
           res == create(Self, name, item_type)
           fs == res.self.filesystem
       IN  (ValidName(name) /\ new_path \notin DOMAIN filesystem) =>
              /\ res.ret.ok
              /\ DOMAIN fs = DOMAIN filesystem \cup {new_path}
              /\ fs[new_path].name = name
              /\ fs[new_path].item_type = item_type
              /\ fs[new_path].content = ""
              /\ fs[new_path].size = 0
              /\ fs[new_path].children = <<>>
              /\ fs[new_path].inode > inode_counter
              /\ \A p \in DOMAIN filesystem : fs[new_path].inode # filesystem[p].inode
              /\ fs[current_path].children =
                    Append(filesystem[current_path].children, name)
              /\ \A p \in DOMAIN filesystem \ {current_path} : fs[p] = filesystem[p]
              /\ fs[current_path] =
                    [filesystem[current_path] EXCEPT !.children = Append(@, name)]

\* C6: a successful create followed by delete of the same name succeeds; the
\* path is then absent, the children of current_path no longer include the
\* name, and the store paths and every children list are as before the create.
DeleteUndoesCreate ==
    \A name \in Names, item_type \in ItemType :
       LET new_path == Join(current_path, name)
           made == create(Self, name, item_type)
           gone == delete(made.self, name)
           fs == gone.self.filesystem
       IN  made.ret.ok =>
              /\ gone.ret.ok
              /\ new_path \notin DOMAIN fs
              /\ ~InList(name, fs[current_path].children)
              /\ DOMAIN fs = DOMAIN filesystem
              /\ \A p \in DOMAIN fs : fs[p].children = filesystem[p].children

\* C7: delete fails with NotFound when the path is absent and with NotEmpty
\* when it is a directory with children; it then leaves the store, the
\* children lists, both caches and current_path unchanged, and the same
\* delete again fails the same way on the same tree.
DeleteFails ==
    \A name \in Names :
       LET item_path == Join(current_path, name)
           res == delete(Self, name)
           again == delete(res.self, name)
           absent == item_path \notin DOMAIN filesystem
           full == /\ item_path \in DOMAIN filesystem
                   /\ filesystem[item_path].item_type = DIRECTORY
                   /\ filesystem[item_path].children # <<>>
       IN  /\ absent => res.ret = NotFound
           /\ full => res.ret = NotEmpty
           /\ (absent \/ full) =>
                 /\ Untouched(res.self)
                 /\ again.ret = res.ret
                 /\ again.self.filesystem = filesystem

\* a delete of a directory with children has just failed for the second time
\* in a row
DeleteFailsWitness ==
    /\ call.op = "delete" /\ ret = NotEmpty
    /\ Len(operation_log) >= 2
    /\ operation_log[Len(operation_log) - 1] = LastLogged
    /\ LastLogged = Operation("DELETE", Join(current_path, call.name), FALSE)

\* C8, as stated: create fails with InvalidName when the name is empty or
\* contains "/", and with AlreadyExists when the path is already in the
\* store, changing nothing.
CreateFailsAsStated ==
    \A name \in Names, item_type \in ItemType :
       LET new_path == Join(current_path, name)
           res == create(Self, name, item_type)
       IN  /\ ~ValidName(name) => res.ret = InvalidName /\ Untouched(res.self)
           /\ new_path \in DOMAIN filesystem =>
                 res.ret = AlreadyExists /\ Untouched(res.self)

\* C8, amended: create fails with InvalidName when the name is empty or
\* contains "/", and with AlreadyExists when the name is valid and the path
\* is already in the store; in both cases the store, the children lists, the
\* caches, current_path and the node at that path are unchanged.
CreateFails ==
    \A name \in Names, item_type \in ItemType :
       LET new_path == Join(current_path, name)
           res == create(Self, name, item_type)
       IN  /\ ~ValidName(name) => res.ret = InvalidName /\ Untouched(res.self)
           /\ (ValidName(name) /\ new_path \in DOMAIN filesystem) =>
                 /\ res.ret = AlreadyExists
                 /\ Untouched(res.self)
                 /\ res.self.filesystem[new_path] = filesystem[new_path]
                 /\ res.self.inode_counter = inode_counter

\* a create of a valid name has just failed because its path exists
CreateFailsWitness ==
    /\ call.op = "create" /\ ret = AlreadyExists
    /\ ValidName(call.name)
    /\ Join(current_path, call.name) \in DOMAIN filesystem
    /\ LastLogged = Operation("CREATE", Join(current_path, call.name), FALSE)

-----------------------------------------------------------------------------
(* Caches and journal *)

\* C9: every key of the dentry cache is a path of the store whose node is
\* the cached one, and every key of the inode cache is the inode of a node
\* of the store.
NoStaleCache ==
    /\ \A p \in DOMAIN dentry_cache :
          p \in DOMAIN filesystem /\ filesystem[p].inode = dentry_cache[p]
    /\ \A i \in DOMAIN inode_cache :
          \E p \in DOMAIN filesystem : filesystem[p].inode = i

\* C10: every call, whether it succeeds or fails, appends exactly one record
\* to the log and adds exactly 1 to the operations count.
EveryCallLogged ==
    [][/\ Len(operation_log') = Len(operation_log) + 1
       /\ stats'.operations = stats.operations + 1]_vars

-----------------------------------------------------------------------------
(* All or nothing *)

\* C11: no call leaves the engine partially mutated: a call that does not
\* complete successfully leaves the store, the children lists, both caches
\* and current_path exactly as they were before the call.
AllOrNothing ==
    [][ret'.ok \/ Untouched([filesystem |-> filesystem',
                             dentry_cache |-> dentry_cache',
                             inode_cache |-> inode_cache',
                             current_path |-> current_path'])]_vars

-----------------------------------------------------------------------------
(* Cache lookups *)

\* from the engine a to the engine b one hit was counted and no miss
Hit(a, b) ==
    /\ b.stats.cache_hits = a.stats.cache_hits + 1
    /\ b.stats.cache_misses = a.stats.cache_misses

\* from the engine a to the engine b one miss was counted and no hit
Miss(a, b) ==
    /\ b.stats.cache_misses = a.stats.cache_misses + 1
    /\ b.stats.cache_hits = a.stats.cache_hits

\* the file now at path was never read: the log has no READ of path after
\* the last CREATE that put a node there
NeverRead(path) ==
    \A i \in 1..Len(operation_log) :
       operation_log[i] = Operation("READ", path, TRUE) =>
          \E j \in (i + 1)..Len(operation_log) :
             operation_log[j] = Operation("CREATE", path, TRUE)

\* a successful read_file of a file never read is a miss, one of a file
\* whose inode is cached is a hit, and it leaves the inode cached; the same
\* read again is a hit; after clear_cache the same read is a miss
ReadCounts ==
    \A name \in Names :
       LET file_path == Join(current_path, name)
           first == read_file(Self, name)
           second == read_file(first.self, name)
           cleared == clear_cache(second.self)
           third == read_file(cleared.self, name)
           inode == filesystem[file_path].inode
       IN  first.ret.ok =>
              /\ NeverRead(file_path) => Miss(Self, first.self)
              /\ IF inode \in DOMAIN inode_cache
                 THEN Hit(Self, first.self)
                 ELSE Miss(Self, first.self)
              /\ inode \in DOMAIN first.self.inode_cache
              /\ second.ret.ok /\ Hit(first.self, second.self)
              /\ third.ret.ok /\ Miss(cleared.self, third.self)

\* a step drops an inode from the inode cache only if it is a clear_cache or
\* a delete of the node with that inode
CachedUntilCleared ==
    \A i \in DOMAIN inode_cache :
       \/ i \in DOMAIN inode_cache'
       \/ call'.op = "clear_cache"
       \/ /\ call'.op = "delete"
          /\ Join(current_path, call'.name) \in DOMAIN filesystem
          /\ filesystem[Join(current_path, call'.name)].inode = i

\* C12: the first successful read_file of a file counts one miss and no hit;
\* a second read_file of it, with no clear_cache and no delete of it in
\* between, counts one hit and no miss; after clear_cache the next read_file
\* of it is a miss again.
ReadHitMiss == [](ReadCounts) /\ [][CachedUntilCleared]_vars

\* a file was read twice in a row: the first read missed, the second hit
ReadHitMissWitness ==
    /\ call.op = "read_file" /\ ret.ok
    /\ Len(operation_log) >= 2
    /\ operation_log[Len(operation_log) - 1] = LastLogged
    /\ LastLogged = Operation("READ", Join(current_path, call.name), TRUE)
    /\ stats.cache_misses = 1 /\ stats.cache_hits = 1

-----------------------------------------------------------------------------
(* Change of directory *)

\* C13: a successful change_directory(name), name other than "..", sets
\* current_path to the join of current_path and name and does one dentry
\* cache lookup of that path: a hit if the path was in the dentry cache,
\* otherwise a miss that inserts the target node; afterwards the path is in
\* the dentry cache.
ChangeDirectoryLooksUp ==
    \A name \in Names \ {".."} :
       LET new_path == Join(current_path, name)
           res == change_directory(Self, name)
       IN  res.ret.ok =>
              /\ res.self.current_path = new_path
              /\ new_path \in DOMAIN res.self.dentry_cache
              /\ IF new_path \in DOMAIN dentry_cache
                 THEN /\ Hit(Self, res.self)
                      /\ res.self.dentry_cache = dentry_cache
                 ELSE /\ Miss(Self, res.self)
                      /\ res.self.dentry_cache =
                            Put(dentry_cache, new_path, filesystem[new_path].inode)

\* a directory was entered for the second time: the dentry cache held its
\* path from the first time
ChangeDirectoryLooksUpWitness ==
    /\ call.op = "change_directory" /\ ret.ok /\ call.name = "etc"
    /\ current_path = "/etc"
    /\ stats.cache_misses = 1 /\ stats.cache_hits = 1
    /\ dentry_cache["/etc"] = filesystem["/etc"].inode

\* C14: a failing change_directory leaves current_path unchanged:
\* change_directory("..") at the root fails with AtRoot, change_directory
\* of another name fails with NotFound when the joined path is absent and
\* with NotADirectory when it is a file; in all three cases current_path,
\* the store, both caches and the hit and miss counts are unchanged.
ChangeDirectoryFails ==
    \A name \in Names :
       LET new_path == Join(current_path, name)
           res == change_directory(Self, name)
           kept == /\ Untouched(res.self)
                   /\ res.self.stats.cache_hits = stats.cache_hits
                   /\ res.self.stats.cache_misses = stats.cache_misses
       IN  /\ (name = ".." /\ current_path = "/") => res.ret = AtRoot
           /\ (name # ".." /\ new_path \notin DOMAIN filesystem) =>
                 res.ret = NoSuchDirectory
           /\ (name # ".." /\ new_path \in DOMAIN filesystem
                 /\ filesystem[new_path].item_type = FILE) =>
                 res.ret = NotADirectory
           /\ ~res.ret.ok => kept /\ res.ret \in {AtRoot, NoSuchDirectory, NotADirectory}

\* a change_directory to a file has just failed, with a path in each cache
ChangeDirectoryFailsWitness ==
    /\ call.op = "change_directory" /\ ret = NotADirectory
    /\ Join(current_path, call.name) \in DOMAIN filesystem
    /\ current_path = "/etc"
    /\ DOMAIN dentry_cache = {"/etc"}

-----------------------------------------------------------------------------
(* Content *)

\* the size of every file of the store is the length of its content
SizeIsLength ==
    \A p \in DOMAIN filesystem :
       filesystem[p].item_type = FILE =>
          filesystem[p].size = Len(filesystem[p].content)

\* a read_file after a successful write_file of the same name returns a node
\* with the content written and its length as size
RoundTrip ==
    \A name \in Names, content \in Contents :
       LET written == write_file(Self, name, content)
           read == read_file(written.self, name)
       IN  written.ret.ok =>
              /\ read.ret.ok
              /\ Returned(read).content = content
              /\ Returned(read).size = Len(content)
              /\ Returned(read) = read.self.filesystem[Join(current_path, name)]

\* a step that is neither a write_file nor a delete of a file leaves the
\* file where it is, with its content and size
ContentKept ==
    \A p \in DOMAIN filesystem :
       filesystem[p].item_type = FILE =>
          \/ /\ p \in DOMAIN filesystem'
             /\ filesystem'[p].inode = filesystem[p].inode
             /\ filesystem'[p].content = filesystem[p].content
             /\ filesystem'[p].size = filesystem[p].size
          \/ /\ call'.op \in {"write_file", "delete"}
             /\ Join(current_path, call'.name) = p

\* C16: after a successful write_file(name, c), a read_file(name) from the
\* same current_path, with any calls in between that do not write or delete
\* that file, returns a node whose content is c and whose size is the length
\* of c; and in every reachable state the size of every file is the length
\* of its content.
WriteReadRoundTrip == [](SizeIsLength /\ RoundTrip) /\ [][ContentKept]_vars

\* a file was written and read afterwards
WriteReadRoundTripWitness ==
    /\ call.op = "read_file" /\ ret.ok
    /\ Returned([self |-> Self, ret |-> ret]).content = "hello"
    /\ Returned([self |-> Self, ret |-> ret]).size = 5
    /\ LastLogged = Operation("READ", Join(current_path, call.name), TRUE)
    /\ \E i \in 1..(Len(operation_log) - 1) :
          operation_log[i] = Operation("WRITE", LastLogged.path, TRUE)

-----------------------------------------------------------------------------
(* Statistics and journal *)

\* C17: in every reachable state total_files is the number of files of the
\* store and total_dirs the number of its directories.
StatsMatchStore ==
    /\ stats.total_files =
          Cardinality({p \in DOMAIN filesystem : filesystem[p].item_type = FILE})
    /\ stats.total_dirs =
          Cardinality({p \in DOMAIN filesystem : filesystem[p].item_type = DIRECTORY})

\* the operations count is the number of records of the log
OperationsCounted == stats.operations = Len(operation_log)

\* C18: the log is append-only: the log before a call is the beginning of
\* the log after it, so no call removes, changes or reorders a record; and
\* in every reachable state the operations count is the number of records.
AppendOnly ==
    [](OperationsCounted) /\ [][IsPrefix(operation_log, operation_log')]_vars

\* the log holds several records, the last of them of a call that failed
AppendOnlyWitness ==
    /\ Len(operation_log) >= 2
    /\ stats.operations = Len(operation_log)
    /\ ~LastLogged.success
    /\ operation_log[1].success

\* the step is a successful read_file or a successful change_directory to a
\* name other than ".."
LooksUp ==
    \/ call'.op = "read_file" /\ ret'.ok
    \/ call'.op = "change_directory" /\ ret'.ok /\ call'.name # ".."

\* a step that looks up adds 1 to exactly one of the hit and miss counts,
\* any other step leaves both as they are
CountsLookups ==
    LET hits == stats'.cache_hits - stats.cache_hits
        misses == stats'.cache_misses - stats.cache_misses
    IN  IF LooksUp
        THEN <<hits, misses>> \in {<<1, 0>>, <<0, 1>>}
        ELSE hits = 0 /\ misses = 0

\* C19: the hit and miss counts change only through cache lookups: create,
\* delete, write_file, get_current_items and clear_cache, successful or
\* not, leave both unchanged; a successful read_file or a successful
\* change_directory to a name other than ".." adds exactly 1 to exactly one
\* of them.
OnlyLookupsCount == [][CountsLookups]_vars

\* a delete succeeded after lookups had been counted
OnlyLookupsCountWitness ==
    /\ call.op = "delete" /\ ret.ok
    /\ stats.cache_misses >= 2
    /\ dentry_cache # EmptyDict

\* C20: clear_cache always succeeds, empties the dentry cache and the inode
\* cache, appends exactly one CACHE_CLEAR record, and leaves the store (so
\* every node's content and children, and the node every path resolves to),
\* current_path, the inode counter, the file and directory totals and the
\* hit and miss counts unchanged.
ClearCacheClears ==
    LET res == clear_cache(Self)
        after == res.self
    IN  /\ res.ret.ok /\ res.ret.exc = ""
        /\ after.dentry_cache = EmptyDict
        /\ after.inode_cache = EmptyDict
        /\ after.operation_log =
              Append(operation_log, Operation("CACHE_CLEAR", "system", TRUE))
        /\ after.filesystem = filesystem
        /\ \A p \in DOMAIN filesystem :
              p \in DOMAIN after.filesystem /\ after.filesystem[p] = filesystem[p]
        /\ after.current_path = current_path
        /\ after.inode_counter = inode_counter
        /\ after.stats = [stats EXCEPT !.operations = @ + 1]

\* a clear_cache has just emptied caches that lookups had filled
ClearCacheClearsWitness ==
    /\ call.op = "clear_cache" /\ ret.ok
    /\ dentry_cache = EmptyDict /\ inode_cache = EmptyDict
    /\ stats.cache_misses >= 1
    /\ stats.cache_misses = Constructed.stats.cache_misses + 1
    /\ LastLogged = Operation("CACHE_CLEAR", "system", TRUE)
    /\ Len(operation_log) = 2 /\ operation_log[1].operation = "READ"

-----------------------------------------------------------------------------
(* Files *)

\* C21: write_file fails with NotFound when the joined path is absent and
\* with NotAFile when it is a directory, changing no node; on success it
\* changes only the content and the size of that one file: its inode, name,
\* kind, creation time and children, every other node, the paths of the
\* store, both caches, the hit and miss counts and current_path are
\* unchanged.
WriteFileFrame ==
    \A name \in Names, content \in Contents :
       LET file_path == Join(current_path, name)
           res == write_file(Self, name, content)
           after == res.self
       IN  /\ file_path \notin DOMAIN filesystem => res.ret = FileNotFound
           /\ (file_path \in DOMAIN filesystem
                 /\ filesystem[file_path].item_type = DIRECTORY) =>
                 res.ret = NotAFile
           /\ ~res.ret.ok =>
                 res.ret \in {FileNotFound, NotAFile} /\ after.filesystem = filesystem
           /\ res.ret.ok =>
                 after.filesystem =
                    [filesystem EXCEPT ![file_path].content = content,
                                       ![file_path].size = Len(content)]
           /\ after.dentry_cache = dentry_cache
           /\ after.inode_cache = inode_cache
           /\ after.current_path = current_path
           /\ after.stats.cache_hits = stats.cache_hits
           /\ after.stats.cache_misses = stats.cache_misses

\* a write_file has just changed the content of a file whose inode is cached
WriteFileFrameWitness ==
    /\ call.op = "write_file" /\ ret.ok /\ call.arg = "hello"
    /\ filesystem[Join(current_path, call.name)].content = "hello"
    /\ filesystem[Join(current_path, call.name)].inode \in DOMAIN inode_cache

\* C22: read_file fails silently when the joined path is absent or is a
\* directory: it returns no node, raises nothing, inserts nothing into the
\* inode cache, counts neither a hit nor a miss, and leaves the store and
\* current_path unchanged.
ReadFileFailsSilently ==
    \A name \in Names :
       LET file_path == Join(current_path, name)
           res == read_file(Self, name)
       IN  (\/ file_path \notin DOMAIN filesystem
            \/ filesystem[file_path].item_type = DIRECTORY) =>
              /\ ~res.ret.ok /\ res.ret.items = <<>>
              /\ res.ret.exc = ""
              /\ Untouched(res.self)
              /\ res.self.stats.cache_hits = stats.cache_hits
              /\ res.self.stats.cache_misses = stats.cache_misses

\* a read_file of a directory has just returned no node, with a file cached
ReadFileFailsSilentlyWitness ==
    /\ call.op = "read_file" /\ ~ret.ok /\ ret.exc = ""
    /\ Join(current_path, call.name) \in DOMAIN filesystem
    /\ filesystem[Join(current_path, call.name)].item_type = DIRECTORY
    /\ inode_cache # EmptyDict

-----------------------------------------------------------------------------
(* Listing *)

\* the node of the store with the inode i
NodeOf(i) == filesystem[CHOOSE p \in DOMAIN filesystem : filesystem[p].inode = i]

\* C23: get_current_items returns exactly the nodes stored at the join of
\* current_path and c for each name c of the children of current_path, each
\* once, ordered by name; it appends one READDIR record with path
\* current_path and changes neither the store, the caches, current_path nor
\* the hit and miss counts.
ListsChildren ==
    LET res == get_current_items(Self)
        items == res.ret.items
        kids == IF current_path \in DOMAIN filesystem
                THEN filesystem[current_path].children
                ELSE <<>>
        stored == {Join(current_path, kids[i]) : i \in 1..Len(kids)}
                     \cap DOMAIN filesystem
    IN  /\ {items[i] : i \in 1..Len(items)} = {filesystem[p].inode : p \in stored}
        /\ Len(items) = Cardinality(stored)
        /\ \A i, j \in 1..Len(items) :
              i < j => StrLess(NodeOf(items[i]).name, NodeOf(items[j]).name)
        /\ res.self.operation_log =
              Append(operation_log, Operation("READDIR", current_path, TRUE))
        /\ Untouched(res.self)
        /\ res.self.stats.cache_hits = stats.cache_hits
        /\ res.self.stats.cache_misses = stats.cache_misses

-----------------------------------------------------------------------------
(* Construction *)

\* the seeded tree: each directory with its children in order, and the files
SeededDirectories ==
    [p \in {"/", "/home", "/home/user", "/home/user/documents",
            "/home/user/downloads", "/etc", "/var", "/var/log"} |->
        CASE p = "/" -> <<"home", "etc", "var">>
          [] p = "/home" -> <<"user">>
          [] p = "/home/user" -> <<"documents", "downloads", "readme.txt">>
          [] p = "/etc" -> <<"config.txt">>
          [] p = "/var" -> <<"log">>
          [] p = "/var/log" -> <<"system.log">>
          [] OTHER -> <<>>]

SeededFiles == {"/home/user/readme.txt", "/etc/config.txt", "/var/log/system.log"}

\* C24: construction yields the canonical state: the store holds exactly the
\* 11 seeded paths (8 directories, 3 files) with distinct inodes 1..11 and
\* children lists matching that tree; current_path is "/"; both caches and
\* the log are empty; the operations, hit and miss counts are 0; total_files
\* is 3 and total_dirs is 8.
ConstructedCanonical ==
    call.op = "__init__" =>
       /\ DOMAIN filesystem = DOMAIN SeededDirectories \cup SeededFiles
       /\ Cardinality(DOMAIN filesystem) = 11
       /\ \A p \in DOMAIN SeededDirectories :
             /\ filesystem[p].item_type = DIRECTORY
             /\ filesystem[p].children = SeededDirectories[p]
       /\ \A p \in SeededFiles :
             /\ filesystem[p].item_type = FILE
             /\ filesystem[p].children = <<>>
       /\ {filesystem[p].inode : p \in DOMAIN filesystem} = 1..11
       /\ current_path = "/"
       /\ dentry_cache = EmptyDict /\ inode_cache = EmptyDict
       /\ operation_log = <<>>
       /\ stats = [total_files |-> 3, total_dirs |-> 8, operations |-> 0,
                   cache_hits |-> 0, cache_misses |-> 0]

\* the engine has just been constructed and no call was made on it
ConstructedCanonicalWitness ==
    /\ call.op = "__init__"
    /\ inode_counter = 11
    /\ LockStep /\ RootExists

-----------------------------------------------------------------------------
(* A session *)

\* the records NotesScenario leaves in the log, as operation and path
NotesJournal ==
    << <<"CHDIR", "/home">>, <<"CHDIR", "/home/user">>,
       <<"CREATE", "/home/user/notes.txt">>, <<"WRITE", "/home/user/notes.txt">>,
       <<"READ", "/home/user/notes.txt">>, <<"DELETE", "/home/user/notes.txt">> >>

\* the k-th call of NotesScenario has just been made, on the constructed
\* engine and after the calls before it: the store and the counter were
\* touched by nothing else
NotesAt(k) ==
    /\ call = NotesScenario[k]
    /\ Len(operation_log) <= k
    /\ \A i \in 1..Len(operation_log) :
          <<operation_log[i].operation, operation_log[i].path>> = NotesJournal[i]
    /\ \A p \in DOMAIN Constructed.filesystem :
          p \in DOMAIN filesystem /\ filesystem[p].inode = Constructed.filesystem[p].inode
    /\ inode_counter <= Constructed.inode_counter + 1

\* the states of the session are as the scenario says
NotesStates ==
    LET path == "/home/user/notes.txt"
    IN  /\ NotesAt(3) =>
              /\ ret.ok
              /\ path \in DOMAIN filesystem /\ filesystem[path].item_type = FILE
        /\ NotesAt(4) =>
              /\ ret.ok
              /\ filesystem[path].content = "hello" /\ filesystem[path].size = 5
        /\ NotesAt(5) =>
              /\ ret.ok
              /\ Returned([self |-> Self, ret |-> ret]) = filesystem[path]
              /\ filesystem[path].content = "hello"
        /\ NotesAt(6) =>
              /\ ret.ok
              /\ path \notin DOMAIN filesystem
              /\ ~InList("notes.txt", filesystem["/home/user"].children)
              /\ path \notin DOMAIN dentry_cache
              /\ \A i \in DOMAIN inode_cache : i <= Constructed.inode_counter

\* the read of the session counts one miss and no hit
NotesReadMisses ==
    (NotesAt(4) /\ call' = NotesScenario[5]) =>
       /\ stats'.cache_misses = stats.cache_misses + 1
       /\ stats'.cache_hits = stats.cache_hits

\* C25: from the constructed state with current_path moved to /home/user,
\* create("notes.txt", FILE) succeeds; write_file("notes.txt", "hello")
\* succeeds and the size of the file is 5; read_file("notes.txt") returns
\* the content "hello" and counts exactly one miss and no hit;
\* delete("notes.txt") succeeds; afterwards /home/user/notes.txt is absent
\* from the store, from the children of /home/user and from both caches.
NotesSession == [](NotesStates) /\ [][NotesReadMisses]_vars

\* the session has run to its end
NotesSessionWitness ==
    /\ NotesAt(6) /\ ret.ok
    /\ Len(operation_log) = 6
    /\ \A i \in 1..6 : operation_log[i].success
    /\ current_path = "/home/user"
    /\ stats.cache_misses = 3 /\ stats.cache_hits = 0

-----------------------------------------------------------------------------
(* Moving up and down *)

\* C27: a successful change_directory("..") from a current_path other than
\* the root sets current_path to its parent path ("/" when the parent is the
\* root), appends exactly one CHDIR record whose path is the new
\* current_path, and does no cache lookup: both caches and the hit and miss
\* counts are unchanged.
UpLooksNothingUp ==
    current_path # "/" =>
       LET res == change_directory(Self, "..")
           after == res.self
       IN  /\ res.ret.ok
           /\ after.current_path = ParentPath(current_path)
           /\ Join(after.current_path, Leaf(current_path)) = current_path
           /\ after.operation_log =
                 Append(operation_log, Operation("CHDIR", after.current_path, TRUE))
           /\ after.dentry_cache = dentry_cache
           /\ after.inode_cache = inode_cache
           /\ after.stats = [stats EXCEPT !.operations = @ + 1]
           /\ after.filesystem = filesystem

\* the caller has just moved up to a directory below the root, with paths
\* in the dentry cache
UpLooksNothingUpWitness ==
    /\ call = Cd("..") /\ ret.ok
    /\ current_path \notin {"/"}
    /\ LastLogged = Operation("CHDIR", current_path, TRUE)
    /\ dentry_cache # EmptyDict
    /\ stats.cache_misses >= 1

\* C28: every directory that is a direct child of current_path can be
\* entered: for every name n of the children of current_path whose node is a
\* directory, change_directory(n) succeeds and sets current_path to the join
\* of current_path and n; a directory created by create("..", DIRECTORY)
\* included.
CanEnterChildren ==
    current_path \in DOMAIN filesystem =>
       \A i \in 1..Len(filesystem[current_path].children) :
          LET n == filesystem[current_path].children[i]
              path == Join(current_path, n)
              res == change_directory(Self, n)
          IN  (path \in DOMAIN filesystem /\ filesystem[path].item_type = DIRECTORY) =>
                 /\ res.ret.ok
                 /\ res.self.current_path = path

-----------------------------------------------------------------------------
(* The inode counter *)

\* C29: a failed create takes no inode: a create rejected with InvalidName
\* or AlreadyExists leaves the inode counter unchanged, so in every reachable
\* state the counter is 11 plus the number of successful creates, and the
\* next successful create gets the highest inode given so far plus 1.
CounterCountsCreates ==
    /\ inode_counter = 11 + Created(operation_log)
    /\ \A name \in Names, item_type \in ItemType :
          LET res == create(Self, name, item_type)
          IN  /\ res.ret \in {InvalidName, AlreadyExists} =>
                    res.self.inode_counter = inode_counter
              /\ res.ret.ok =>
                    /\ res.self.inode_counter = inode_counter + 1
                    /\ res.self.filesystem[Join(current_path, name)].inode =
                          inode_counter + 1

-----------------------------------------------------------------------------
(* Cache contents *)

\* the entries of the two caches are no more than the misses counted
CachesBounded ==
    Cardinality(DOMAIN dentry_cache) + Cardinality(DOMAIN inode_cache)
       <= stats.cache_misses

\* a dentry cache entry whose item is in the store is a directory, an inode
\* cache entry whose item is in the store is a file
CachesTyped ==
    \A q \in DOMAIN filesystem :
       /\ (\E p \in DOMAIN dentry_cache : dentry_cache[p] = filesystem[q].inode)
             => filesystem[q].item_type = DIRECTORY
       /\ filesystem[q].inode \in DOMAIN inode_cache
             => filesystem[q].item_type = FILE

\* a step caches only the directory of the store at the path it is cached
\* under, and only a file of the store under its inode; and it leaves the
\* kind of every item as it is
InsertsTyped ==
    /\ \A p \in DOMAIN dentry_cache' :
          (p \notin DOMAIN dentry_cache \/ dentry_cache'[p] # dentry_cache[p]) =>
             /\ p \in DOMAIN filesystem
             /\ filesystem[p].item_type = DIRECTORY
             /\ dentry_cache'[p] = filesystem[p].inode
    /\ \A i \in DOMAIN inode_cache' :
          (i \notin DOMAIN inode_cache \/ inode_cache'[i] # inode_cache[i]) =>
             /\ inode_cache'[i] = i
             /\ \E q \in DOMAIN filesystem :
                   filesystem[q].inode = i /\ filesystem[q].item_type = FILE
    /\ \A q \in DOMAIN filesystem \cap DOMAIN filesystem' :
          filesystem'[q].inode = filesystem[q].inode =>
             filesystem'[q].item_type = filesystem[q].item_type

\* C30: in every reachable state the number of dentry cache entries plus the
\* number of inode cache entries is at most the miss count, every dentry
\* cache entry refers to a directory and every inode cache entry to a file.
CachesBoundedAndTyped ==
    [](CachesBounded /\ CachesTyped) /\ [][InsertsTyped]_vars

\* both caches hold an entry, one of them of a file no longer in the store
CachesBoundedAndTypedWitness ==
    /\ dentry_cache # EmptyDict
    /\ \E i \in DOMAIN inode_cache :
          \A q \in DOMAIN filesystem : filesystem[q].inode # i
    /\ Cardinality(DOMAIN dentry_cache) + Cardinality(DOMAIN inode_cache)
          = stats.cache_misses

-----------------------------------------------------------------------------
(* Callers side by side *)

\* the thread t is inside a create that passed the tests of lines 124-131:
\* nothing can make it fail from there on
CreatesFor(t, path) ==
    /\ threads[t].pc \in {"create_133", "create_141", "create_142", "create_144"}
    /\ threads[t].path = path

\* C26: when the updates of two callers of the same engine interleave, no
\* caller sees a path in the store whose name is not in the children of its
\* parent, nor a name in the children of a directory whose path is not in
\* the store; and two creates of the same name at the same time never both
\* succeed.
NoPartialView ==
    /\ \A P \in DOMAIN filesystem \ {"/"} :
          /\ ParentPath(P) \in DOMAIN filesystem
          /\ InList(Leaf(P), filesystem[ParentPath(P)].children)
    /\ \A d \in DOMAIN filesystem :
          \A i \in 1..Len(filesystem[d].children) :
             Join(d, filesystem[d].children[i]) \in DOMAIN filesystem
    /\ \A t, u \in Threads :
          t # u => ~(CreatesFor(t, threads[t].path) /\ CreatesFor(u, threads[t].path))

-----------------------------------------------------------------------------
(* Faithful records *)

\* the operation a call of the method op is logged as
KindOf(op) ==
    CASE op = "create" -> "CREATE"
      [] op = "delete" -> "DELETE"
      [] op = "read_file" -> "READ"
      [] op = "write_file" -> "WRITE"
      [] op = "change_directory" -> "CHDIR"
      [] op = "get_current_items" -> "READDIR"
      [] op = "clear_cache" -> "CACHE_CLEAR"
      [] OTHER -> ""

\* a step that appends to the log appends one record, and the record tells
\* the call of the step: its success flag is what the call returned, its
\* operation is the kind of the call, and its path is the join of
\* current_path and the name as of the call, the new current_path for CHDIR
\* and current_path for READDIR ("system" for CACHE_CLEAR, which has no path)
RecordsTheCall ==
    Len(operation_log') > Len(operation_log) =>
       LET record == operation_log'[Len(operation_log')]
       IN  /\ Len(operation_log') = Len(operation_log) + 1
           /\ record.success = ret'.ok
           /\ record.operation = KindOf(call'.op)
           /\ record.path =
                 CASE call'.op \in {"create", "delete", "read_file", "write_file"} ->
                         Join(current_path, call'.name)
                   [] call'.op = "change_directory" -> current_path'
                   [] call'.op = "get_current_items" -> current_path
                   [] OTHER -> "system"
           /\ call'.op = "change_directory" /\ call'.name # ".." =>
                 record.path = Join(current_path, call'.name)

\* C31: every record of the log is faithful to the call that appended it:
\* its success flag is true exactly when that call returned success, its
\* operation is the kind of that call (CREATE, DELETE, READ, WRITE, CHDIR,
\* READDIR or CACHE_CLEAR), and its path is the absolute path the call
\* resolved.
FaithfulRecords == [][RecordsTheCall]_vars

\* a call below the root has just failed and was logged as failed, after a
\* call that was logged as done
FaithfulRecordsWitness ==
    /\ call.op \in {"create", "delete", "write_file"} /\ ~ret.ok
    /\ current_path # "/"
    /\ LastLogged = Operation(KindOf(call.op), Join(current_path, call.name), FALSE)
    /\ Len(operation_log) >= 2
    /\ operation_log[Len(operation_log) - 1].success

=============================================================================
